---- MODULE Spec2Model ----
(***************************************************************************)
(* Model of src/app/page.tsx: the Home component of the SEO analyzer.      *)
(*                                                                         *)
(* Strings are sequences of one-character strings.  JavaScript numbers     *)
(* that can be fractional (review ratings, the seven sub-scores) are       *)
(* fixed-point integers counting units of 1/Scale; everything the page     *)
(* computes from ratings given in tenths of a star is exact in that unit.  *)
(* Math.round is round-half-up, as in JavaScript.                          *)
(***************************************************************************)
EXTENDS Integers, Sequences, FiniteSets

VARIABLES
    businessName,       \* useState('')            page.tsx:67
    businessAddress,    \* useState('')            page.tsx:68
    seoScore,           \* useState<SeoScore|null> page.tsx:69
    recommendations,    \* useState<Recommendation[]>([]) page.tsx:70
    isCalculating,      \* useState(false)         page.tsx:71
    error,              \* useState<string|null>   page.tsx:72
    pending,            \* calls of calculateSeoScore suspended at the await of
                        \* fetchSEOData, each with the name and address its
                        \* closure captured (page.tsx:76, 194)
    scoredFrom          \* the closure values the stored seoScore was computed
                        \* from (page.tsx:90-101); NoScore while seoScore is null

vars == <<businessName, businessAddress, seoScore, recommendations,
          isCalculating, error, pending, scoredFrom>>

-----------------------------------------------------------------------------
(* Bounds of the model *)

MaxShortName == 1       \* every name over NameChars up to this length
MaxNameLen == 41        \* one patterned name for each longer length up to this
MaxShortAddr == 1       \* every address over AddrChars up to this length
MaxSegments == 5        \* "1,1,...,1" with up to this many segments
MaxPending == 2         \* cap on suspended calls (only a mutant reaches it)

-----------------------------------------------------------------------------
(* Representation *)

Scale == 10

NoScore == [null |-> TRUE]
NoError == "null"

Min(a, b) == IF a <= b THEN a ELSE b
Max(a, b) == IF a >= b THEN a ELSE b

\* Math.round(num / den) for den > 0: the nearest integer, halves rounded up
Round(num, den) == (2 * num + den) \div (2 * den)

\* String.prototype.toLowerCase on the model's alphabet
LowerChar(c) == IF c = "B" THEN "b" ELSE c
ToLowerCase(s) == [i \in 1..Len(s) |-> LowerChar(s[i])]

\* String.prototype.split(sep) for a one-character separator: the pieces
\* between the occurrences of sep, empty pieces included
Split(s, sep) ==
    LET cuts == <<0>> \o SelectSeq([i \in 1..Len(s) |-> i], LAMBDA i : s[i] = sep)
                      \o <<Len(s) + 1>>
    IN  [k \in 1..(Len(cuts) - 1) |-> SubSeq(s, cuts[k] + 1, cuts[k + 1] - 1)]

-----------------------------------------------------------------------------
(* Inputs *)

NameChars == {"a", "B", " ", "\t"}
AddrChars == {"1", ","}

LongName(n) == [i \in 1..n |-> IF i % 6 = 0 THEN " " ELSE "a"]
\* names with a run of spaces, a leading space, a trailing space, a tab
ExampleNames == {<<"a", " ", " ", "B">>, <<" ", "a">>, <<"a", " ">>, <<"a", "\t", "B">>}
Names ==
    UNION {[1..n -> NameChars] : n \in 0..MaxShortName}
    \cup ExampleNames
    \cup {LongName(n) : n \in (MaxShortName + 1)..MaxNameLen}

SegmentAddr(k) == [i \in 1..(2 * k - 1) |-> IF i % 2 = 0 THEN "," ELSE "1"]
Addresses ==
    UNION {[1..n -> AddrChars] : n \in 0..MaxShortAddr}
    \cup {SegmentAddr(k) : k \in 1..MaxSegments}

\* the values typed into the form in the page's specification
FormNames == {<<>>, <<"a">>, <<"a", " ", "B">>}
FormAddresses == {<<>>, <<"1">>, <<"1", ",", "1">>}

socialPlatforms == <<"facebook", "instagram", "twitter", "linkedin">>
Platforms == {socialPlatforms[i] : i \in 1..Len(socialPlatforms)}

Positions == {0, 30, 31, 100, 150}

\* a rating is in units of 1/Scale stars, from 0 to 5 stars
GoogleReviews == {[rating |-> 0, count |-> 50],
                  [rating |-> 37, count |-> 100],
                  [rating |-> 5 * Scale, count |-> 480]}
YelpReviews == {[rating |-> 0, count |-> 10],
                [rating |-> 42, count |-> 50],
                [rating |-> 5 * Scale, count |-> 199]}

\* what fetchSEOData resolves to
RawSignals ==
    [searchRanking : [googlePosition : Positions,
                      monthlySearches : {5000},
                      competitorRanks : {<<1, 3, 5, 8, 12>>}],
     socialMedia : [Platforms -> [exists : BOOLEAN, followers : {0}]],
     reviews : [google : GoogleReviews, yelp : YelpReviews]]

\* the snapshots the page's specification lets the data source return:
\* position 30 or 31, all four platforms or only the first two, 50 or 100
\* google reviews, 50 yelp reviews
FormSignals ==
    {s \in RawSignals :
        /\ s.searchRanking.googlePosition \in {30, 31}
        /\ s.socialMedia["facebook"].exists /\ s.socialMedia["instagram"].exists
        /\ s.socialMedia["twitter"].exists = s.socialMedia["linkedin"].exists
        /\ s.reviews.google.count <= 100
        /\ s.reviews.yelp.count = 50}

-----------------------------------------------------------------------------
(* calculateSEOMetrics, after the fetch *)

\* NameLength with the sweet spot's lower end excluded (> 15 for >= 15)
NameLengthExclusiveStart(name) ==
    IF Len(name) > 0
    THEN IF Len(name) > 15 /\ Len(name) <= 30 THEN 30
         ELSE IF Len(name) < 15 THEN Round(Len(name) * 30, 15)
         ELSE Round(40 * 30, Len(name))
    ELSE 0

NameLength(name) ==
    IF Len(name) > 0
    THEN IF Len(name) >= 15 /\ Len(name) <= 30 THEN 30
         ELSE IF Len(name) < 15 THEN Round(Len(name) * 30, 15)
         ELSE Round(40 * 30, Len(name))
    ELSE 0

\* KeywordOptimization without the test for an empty name
KeywordOptimizationUnguarded(name) ==
    Min(Len(Split(ToLowerCase(name), " ")) * 10, 30)

KeywordOptimization(name) ==
    IF Len(name) > 0
    THEN Min(Len(Split(ToLowerCase(name), " ")) * 10, 30)
    ELSE 0

AddressCompleteness(address) ==
    IF Len(address) > 0
    THEN Min(Len(Split(address, ",")) * 10, 40)
    ELSE 0

\* GoogleRanking without the clamp at 0
GoogleRankingUnclamped(apiData) == 100 - apiData.searchRanking.googlePosition

GoogleRanking(apiData) == Max(0, 100 - apiData.searchRanking.googlePosition)

\* ExistingPlatforms counting the platforms that have an entry, not those
\* whose exists flag is true
ExistingPlatformsAnyEntry(apiData) ==
    Cardinality({i \in 1..Len(socialPlatforms) :
                    socialPlatforms[i] \in DOMAIN apiData.socialMedia})

ExistingPlatforms(apiData) ==
    Cardinality({i \in 1..Len(socialPlatforms) :
                    apiData.socialMedia[socialPlatforms[i]].exists})

\* (existingPlatforms / socialPlatforms.length) * 100, in units of 1/Scale
SocialMediaPresence(apiData) ==
    (ExistingPlatforms(apiData) * 100 * Scale) \div Len(socialPlatforms)

\* LocalSEO without the cap at 100
LocalSEOUncapped(apiData) ==
    LET ratingSum == apiData.reviews.google.rating + apiData.reviews.yelp.rating
        totalReviews == apiData.reviews.google.count + apiData.reviews.yelp.count
    IN  (ratingSum * 10) \div 2 + (totalReviews * Scale) \div 10

\* min(100, avgRating * 10 + totalReviews / 10), in units of 1/Scale;
\* ratings are in units of 1/Scale, so avgRating * 10 is (g + y) * 10 / 2
LocalSEO(apiData) ==
    LET ratingSum == apiData.reviews.google.rating + apiData.reviews.yelp.rating
        totalReviews == apiData.reviews.google.count + apiData.reviews.yelp.count
    IN  Min(100 * Scale, (ratingSum * 10) \div 2 + (totalReviews * Scale) \div 10)

\* min(100, (google.rating / 5) * 50 + (yelp.rating / 5) * 50), in units of 1/Scale
OnlineReviews(apiData) ==
    Min(100 * Scale,
        (apiData.reviews.google.rating * 50) \div 5
        + (apiData.reviews.yelp.rating * 50) \div 5)

\* the score object of page.tsx:79-123, every field in units of 1/Scale
Details(name, address, apiData) ==
    [nameLength |-> NameLength(name) * Scale,
     addressCompleteness |-> AddressCompleteness(address) * Scale,
     keywordOptimization |-> KeywordOptimization(name) * Scale,
     googleRanking |-> GoogleRanking(apiData) * Scale,
     socialMediaPresence |-> SocialMediaPresence(apiData),
     localSEO |-> LocalSEO(apiData),
     onlineReviews |-> OnlineReviews(apiData)]

\* Object.values(score).reduce((a, b) => a + b, 0), in units of 1/Scale
SumDetails(d) ==
    d.nameLength + d.addressCompleteness + d.keywordOptimization
    + d.googleRanking + d.socialMediaPresence + d.localSEO + d.onlineReviews

\* Total with Math.floor for Math.round
TotalFloored(d) == SumDetails(d) \div (7 * Scale)

\* Math.round(total) with total the sum divided by 7
Total(d) == Round(SumDetails(d), 7 * Scale)

calculateSEOMetrics(name, address, apiData) ==
    LET score == Details(name, address, apiData)
    IN  [total |-> Total(score),
         details |-> score,
         searchData |-> [googleRank |-> apiData.searchRanking.googlePosition,
                         monthlySearches |-> apiData.searchRanking.monthlySearches,
                         competitorRanking |-> apiData.searchRanking.competitorRanks],
         socialMedia |-> apiData.socialMedia,
         reviews |-> apiData.reviews]

-----------------------------------------------------------------------------
(* generateRecommendations *)

\* missingSocialPlatforms with the filter's negation dropped
missingSocialPlatformsUnnegated(score) ==
    SelectSeq(socialPlatforms, LAMBDA p : score.socialMedia[p].exists)

\* Object.entries(score.socialMedia).filter(([_, data]) => !data.exists)
\*   .map(([platform]) => platform), in the object's key order
missingSocialPlatforms(score) ==
    SelectSeq(socialPlatforms, LAMBDA p : ~score.socialMedia[p].exists)

RankingRec(score) ==
    [category |-> "Search Engine Ranking",
     status |-> "poor",
     message |-> [text |-> "Current Google Ranking: Position ",
                  googleRank |-> score.searchData.googleRank],
     improvement |-> "Improve website content, build quality backlinks, and optimize for relevant keywords",
     priority |-> "high"]

SocialRec(score) ==
    [category |-> "Social Media Presence",
     status |-> "warning",
     message |-> [text |-> "Missing presence on: ",
                  joined |-> missingSocialPlatforms(score)],
     improvement |-> "Create and maintain active profiles on missing social media platforms",
     priority |-> "medium"]

ReviewsRec(score) ==
    [category |-> "Online Reviews",
     status |-> "warning",
     message |-> [text |-> "Current reviews: Google (), Yelp ()",
                  google |-> score.reviews.google.count,
                  yelp |-> score.reviews.yelp.count],
     improvement |-> "Encourage satisfied customers to leave reviews and respond to existing reviews",
     priority |-> "high"]

\* generateRecommendations with the high-priority entries pushed first
generateRecommendationsHighFirst(score) ==
    (IF score.details.googleRanking < 70 * Scale THEN <<RankingRec(score)>> ELSE <<>>)
    \o (IF score.reviews.google.count < 100 \/ score.reviews.yelp.count < 50
        THEN <<ReviewsRec(score)>> ELSE <<>>)
    \o (IF Len(missingSocialPlatforms(score)) > 0 THEN <<SocialRec(score)>> ELSE <<>>)

\* generateRecommendations with <= 70 for < 70 in the ranking rule
generateRecommendationsInclusive70(score) ==
    (IF score.details.googleRanking <= 70 * Scale THEN <<RankingRec(score)>> ELSE <<>>)
    \o (IF Len(missingSocialPlatforms(score)) > 0 THEN <<SocialRec(score)>> ELSE <<>>)
    \o (IF score.reviews.google.count < 100 \/ score.reviews.yelp.count < 50
        THEN <<ReviewsRec(score)>> ELSE <<>>)

\* generateRecommendations with && for || in the reviews rule
generateRecommendationsBothLow(score) ==
    (IF score.details.googleRanking < 70 * Scale THEN <<RankingRec(score)>> ELSE <<>>)
    \o (IF Len(missingSocialPlatforms(score)) > 0 THEN <<SocialRec(score)>> ELSE <<>>)
    \o (IF score.reviews.google.count < 100 /\ score.reviews.yelp.count < 50
        THEN <<ReviewsRec(score)>> ELSE <<>>)

generateRecommendations(score) ==
    (IF score.details.googleRanking < 70 * Scale THEN <<RankingRec(score)>> ELSE <<>>)
    \o (IF Len(missingSocialPlatforms(score)) > 0 THEN <<SocialRec(score)>> ELSE <<>>)
    \o (IF score.reviews.google.count < 100 \/ score.reviews.yelp.count < 50
        THEN <<ReviewsRec(score)>> ELSE <<>>)

-----------------------------------------------------------------------------
(* The page *)

FailMessage == "Failed to calculate SEO score. Please try again."

Remove(seq, i) == [j \in 1..(Len(seq) - 1) |-> IF j < i THEN seq[j] ELSE seq[j + 1]]

Init ==
    /\ businessName = <<>>
    /\ businessAddress = <<>>
    /\ seoScore = NoScore
    /\ recommendations = <<>>
    /\ isCalculating = FALSE
    /\ error = NoError
    /\ pending = <<>>
    /\ scoredFrom = NoScore

\* onChange of the name input
SetBusinessName(value) ==
    /\ businessName' = value
    /\ UNCHANGED <<businessAddress, seoScore, recommendations, isCalculating,
                   error, pending, scoredFrom>>

\* onChange of the address textarea
SetBusinessAddress(value) ==
    /\ businessAddress' = value
    /\ UNCHANGED <<businessName, seoScore, recommendations, isCalculating,
                   error, pending, scoredFrom>>

\* ButtonEnabled without the isCalculating test
ButtonEnabledWhilePending == ~(businessName = <<>> \/ businessAddress = <<>>)

\* the disabled attribute of the analyze button, negated
ButtonEnabled == ~(isCalculating \/ businessName = <<>> \/ businessAddress = <<>>)

\* ClickAnalyze without setError(null)
ClickAnalyzeKeepingError ==
    /\ ButtonEnabled
    /\ Len(pending) < MaxPending
    /\ isCalculating' = TRUE
    /\ pending' = Append(pending, [name |-> businessName, address |-> businessAddress])
    /\ UNCHANGED <<businessName, businessAddress, seoScore, recommendations,
                   scoredFrom, error>>

\* onClick of the analyze button: calculateSeoScore up to the await
ClickAnalyze ==
    /\ ButtonEnabled
    /\ Len(pending) < MaxPending
    /\ isCalculating' = TRUE
    /\ error' = NoError
    /\ pending' = Append(pending, [name |-> businessName, address |-> businessAddress])
    /\ UNCHANGED <<businessName, businessAddress, seoScore, recommendations, scoredFrom>>

\* FetchResolve without setRecommendations
FetchResolveScoreOnly(i, apiData) ==
    /\ i \in 1..Len(pending)
    /\ seoScore' = calculateSEOMetrics(pending[i].name, pending[i].address, apiData)
    /\ scoredFrom' = pending[i]
    /\ isCalculating' = FALSE
    /\ pending' = Remove(pending, i)
    /\ UNCHANGED <<businessName, businessAddress, error, recommendations>>

\* FetchResolve scoring the field values of the time the fetch completes
FetchResolveFromForm(i, apiData) ==
    /\ i \in 1..Len(pending)
    /\ \E newScore \in {calculateSEOMetrics(businessName, businessAddress, apiData)} :
           /\ seoScore' = newScore
           /\ recommendations' = generateRecommendations(newScore)
    /\ scoredFrom' = [name |-> businessName, address |-> businessAddress]
    /\ isCalculating' = FALSE
    /\ pending' = Remove(pending, i)
    /\ UNCHANGED <<businessName, businessAddress, error>>

\* the fetch of suspended call i resolves with apiData: the rest of the try
\* block of calculateSeoScore, then its finally
FetchResolve(i, apiData) ==
    /\ i \in 1..Len(pending)
    /\ \E newScore \in {calculateSEOMetrics(pending[i].name, pending[i].address, apiData)} :
           /\ seoScore' = newScore
           /\ recommendations' = generateRecommendations(newScore)
    /\ scoredFrom' = pending[i]
    /\ isCalculating' = FALSE
    /\ pending' = Remove(pending, i)
    /\ UNCHANGED <<businessName, businessAddress, error>>

\* FetchReject that also clears the stored result
FetchRejectClearing(i) ==
    /\ i \in 1..Len(pending)
    /\ error' = FailMessage
    /\ seoScore' = NoScore
    /\ recommendations' = <<>>
    /\ scoredFrom' = NoScore
    /\ isCalculating' = FALSE
    /\ pending' = Remove(pending, i)
    /\ UNCHANGED <<businessName, businessAddress>>

\* the fetch of suspended call i fails: the catch of calculateSEOMetrics
\* rethrows, the catch of calculateSeoScore sets the message, then its finally
FetchReject(i) ==
    /\ i \in 1..Len(pending)
    /\ error' = FailMessage
    /\ isCalculating' = FALSE
    /\ pending' = Remove(pending, i)
    /\ UNCHANGED <<businessName, businessAddress, seoScore, recommendations, scoredFrom>>

Next ==
    \/ \E value \in FormNames : SetBusinessName(value)
    \/ \E value \in FormAddresses : SetBusinessAddress(value)
    \/ ClickAnalyze
    \/ \E i \in 1..Len(pending) : \E apiData \in FormSignals : FetchResolve(i, apiData)
    \/ \E i \in 1..Len(pending) : FetchReject(i)

Spec == Init /\ [][Next]_vars

\* the promise of fetchSEOData settles: its timer fires and it resolves, or a
\* data source that can fail rejects
FetchSettles ==
    \E i \in 1..Len(pending) :
        \/ \E apiData \in FormSignals : FetchResolve(i, apiData)
        \/ FetchReject(i)

\* the page with every outstanding fetch eventually settling
FairSpec == Spec /\ WF_vars(FetchSettles)

\* calculateSEOMetrics as a function of its inputs: one call is suspended at
\* the fetch with a name and an address drawn from the bounded sets
ScoreInit ==
    /\ businessName \in Names
    /\ businessAddress \in Addresses
    /\ seoScore = NoScore
    /\ recommendations = <<>>
    /\ isCalculating = TRUE
    /\ error = NoError
    /\ pending = <<[name |-> businessName, address |-> businessAddress]>>
    /\ scoredFrom = NoScore

ScoreNext ==
    \/ \E i \in 1..Len(pending) : \E apiData \in RawSignals : FetchResolve(i, apiData)
    \/ \E i \in 1..Len(pending) : FetchReject(i)

ScoreSpec == ScoreInit /\ [][ScoreNext]_vars

-----------------------------------------------------------------------------
(* Properties *)

Scored == seoScore # NoScore

SubScores == {"nameLength", "addressCompleteness", "keywordOptimization",
              "googleRanking", "socialMediaPresence", "localSEO", "onlineReviews"}

RECURSIVE SumFields(_, _)
SumFields(rec, fields) ==
    IF fields = {} THEN 0
    ELSE LET f == CHOOSE x \in fields : TRUE
         IN  rec[f] + SumFields(rec, fields \ {f})

\* v is num/den rounded to the nearest integer, halves rounded up
IsRounded(v, num, den) == 2 * den * v - den <= 2 * num /\ 2 * num < 2 * den * v + den

\* C1: the total of a computed score is round(sum of the seven sub-scores / 7),
\* the seven sub-scores being exactly the fields of details.
C1_TotalIsRoundedMean ==
    Scored =>
        /\ DOMAIN seoScore.details = SubScores
        /\ Cardinality(SubScores) = 7
        /\ IsRounded(seoScore.total, SumFields(seoScore.details, SubScores), 7 * Scale)

\* a computed score whose mean has a fractional part of at least one half, so
\* that the total is the mean rounded up
C1_Witness ==
    /\ Scored
    /\ seoScore.total * 7 * Scale > SumFields(seoScore.details, SubScores)

ValidSignals(score) ==
    /\ score.searchData.googleRank >= 0
    /\ \A src \in {"google", "yelp"} :
          /\ score.reviews[src].rating >= 0
          /\ score.reviews[src].rating <= 5 * Scale
          /\ score.reviews[src].count >= 0

\* C2: with ratings in [0,5], googlePosition >= 0 and review counts >= 0, each
\* of the seven sub-scores lies in [0,100] and total is an integer in 0..100.
C2_ScoresInRange ==
    (Scored /\ ValidSignals(seoScore)) =>
        /\ \A f \in SubScores :
              seoScore.details[f] >= 0 /\ seoScore.details[f] <= 100 * Scale
        /\ seoScore.total \in 0..100

\* a computed score whose localSEO formula exceeds 100 before the cap
\* (two 5-star ratings and 679 reviews) and whose googleRanking is clamped at 0
C2_Witness ==
    /\ Scored
    /\ ValidSignals(seoScore)
    /\ seoScore.details.localSEO = 100 * Scale
    /\ seoScore.reviews.google.count + seoScore.reviews.yelp.count > 500
    /\ seoScore.searchData.googleRank > 100

\* C3: no sub-score exceeds its stated maximum: nameLength <= 30,
\* keywordOptimization <= 30 and addressCompleteness <= 40.
C3_StatedMaxima ==
    Scored =>
        /\ seoScore.details.nameLength <= 30 * Scale
        /\ seoScore.details.keywordOptimization <= 30 * Scale
        /\ seoScore.details.addressCompleteness <= 40 * Scale

\* C4: for a non-empty name of length L, nameLength is 30 when 15 <= L <= 30,
\* round(L/15*30) when L < 15 and round(40/L*30) when L > 30; below 15 it
\* does not decrease as L grows.
C4_NameLengthFormula ==
    (Scored /\ scoredFrom.name # <<>>) =>
        LET L == Len(scoredFrom.name)
            nl == seoScore.details.nameLength
        IN  /\ nl % Scale = 0
            /\ (L >= 15 /\ L <= 30) => nl = 30 * Scale
            /\ L < 15 => /\ IsRounded(nl \div Scale, L * 30, 15)
                         /\ \A n \in Names :
                               (Len(n) > 0 /\ Len(n) <= L) => NameLength(n) * Scale <= nl
            /\ L > 30 => IsRounded(nl \div Scale, 40 * 30, L)

\* a score computed for a 32-character name: 40/32*30 = 37.5 rounds to 38
C4_Witness ==
    /\ Scored
    /\ Len(scoredFrom.name) = 32
    /\ seoScore.details.nameLength = 38 * Scale

Whitespace == {" ", "\t"}

\* the number of whitespace-separated tokens of s: the maximal runs of
\* characters that are not whitespace
TokenCount(s) ==
    Cardinality({i \in 1..Len(s) :
                    s[i] \notin Whitespace /\ (i = 1 \/ s[i - 1] \in Whitespace)})

\* C5: for a non-empty name, keywordOptimization is min(tokenCount * 10, 30),
\* tokenCount being the number of whitespace-separated tokens of the
\* lower-cased name.
C5_KeywordTokens ==
    (Scored /\ scoredFrom.name # <<>>) =>
        seoScore.details.keywordOptimization
            = Min(TokenCount(ToLowerCase(scoredFrom.name)) * 10, 30) * Scale

\* C6: an empty name gives nameLength 0 and keywordOptimization 0, an empty
\* address gives addressCompleteness 0, and the call still stores a score
\* without an error.
C6_EmptyInputs ==
    /\ (scoredFrom # NoScore /\ scoredFrom.name = <<>>) =>
          /\ Scored
          /\ error = NoError
          /\ seoScore.details.nameLength = 0
          /\ seoScore.details.keywordOptimization = 0
    /\ (scoredFrom # NoScore /\ scoredFrom.address = <<>>) =>
          /\ Scored
          /\ error = NoError
          /\ seoScore.details.addressCompleteness = 0

\* a score computed from an empty name and an empty address
C6_Witness ==
    /\ Scored
    /\ scoredFrom.name = <<>>
    /\ scoredFrom.address = <<>>

\* C7: for googlePosition >= 0, googleRanking is max(0, 100 - googlePosition):
\* 100 at position 0, 0 at position 100, 0 and never negative above 100.
C7_GoogleRankingClamped ==
    (Scored /\ seoScore.searchData.googleRank >= 0) =>
        LET pos == seoScore.searchData.googleRank
            gr == seoScore.details.googleRanking
        IN  /\ gr >= 0
            /\ pos <= 100 => gr + pos * Scale = 100 * Scale
            /\ pos > 100 => gr = 0

\* a score computed for position 150
C7_Witness ==
    /\ Scored
    /\ seoScore.searchData.googleRank = 150
    /\ seoScore.details.googleRanking = 0

\* C8: socialMediaPresence is 25 * k, k being the number of the four tracked
\* platforms whose exists flag is true.
C8_SocialMediaPresence ==
    Scored =>
        \A k \in 0..4 :
            Cardinality({p \in {"facebook", "instagram", "twitter", "linkedin"} :
                            seoScore.socialMedia[p].exists}) = k
            => seoScore.details.socialMediaPresence = 25 * k * Scale

\* a score computed for three existing platforms
C8_Witness ==
    /\ Scored
    /\ Cardinality({p \in Platforms : seoScore.socialMedia[p].exists}) = 3
    /\ seoScore.details.socialMediaPresence = 75 * Scale

\* C9: a failed fetch stores no score: the step that sets error sets it to
\* the one failure message and leaves seoScore and recommendations as they
\* were.
C9_FailureKeepsLastResult ==
    [][(error' # NoError /\ error' # error) =>
          /\ error' = "Failed to calculate SEO score. Please try again."
          /\ seoScore' = seoScore
          /\ recommendations' = recommendations]_vars

\* a failure after a successful calculation: the message is shown and the
\* earlier score and its recommendations are still stored
C9_Witness ==
    /\ error = FailMessage
    /\ Scored
    /\ recommendations # <<>>

\* C10: at most one fetch is outstanding, and one is outstanding only while
\* isCalculating is true.
C10_OneOutstandingFetch ==
    /\ Len(pending) <= 1
    /\ pending # <<>> => isCalculating

\* a fetch is outstanding while the form holds a name and an address, so
\* that only isCalculating disables the button
C10_Witness ==
    /\ Len(pending) = 1
    /\ businessName # <<>>
    /\ businessAddress # <<>>
    /\ ~ButtonEnabled

\* the positions in the stored list of the recommendations of one category
RecsOf(category) ==
    {i \in 1..Len(recommendations) : recommendations[i].category = category}

CategoryRank(category) ==
    CASE category = "Search Engine Ranking" -> 1
      [] category = "Social Media Presence" -> 2
      [] category = "Online Reviews" -> 3
      [] OTHER -> 0

\* C11: the recommendation list of a score has 0 to 3 entries, holds each of
\* the three categories at most once, and lists them in the order Search
\* Engine Ranking, Social Media Presence, Online Reviews whatever their
\* priority.
C11_RecommendationOrder ==
    Scored =>
        /\ Len(recommendations) \in 0..3
        /\ \A i \in 1..Len(recommendations) :
              CategoryRank(recommendations[i].category) \in 1..3
        /\ \A i, j \in 1..Len(recommendations) :
              i < j => CategoryRank(recommendations[i].category)
                       < CategoryRank(recommendations[j].category)

\* a list in which the medium-priority Social Media entry precedes the
\* high-priority Online Reviews entry
C11_Witness ==
    /\ Scored
    /\ \E i, j \in 1..Len(recommendations) :
          /\ i < j
          /\ recommendations[i].category = "Social Media Presence"
          /\ recommendations[i].priority = "medium"
          /\ recommendations[j].category = "Online Reviews"
          /\ recommendations[j].priority = "high"

MissingOf(score) ==
    {p \in {"facebook", "instagram", "twitter", "linkedin"} : ~score.socialMedia[p].exists}

\* C12: a Social Media Presence recommendation (warning, medium) is emitted
\* exactly when one of the four platforms has exists = false, and its
\* message lists exactly those platforms; with all four false,
\* socialMediaPresence is 0 and the message lists all four.
C12_SocialRecommendation ==
    Scored =>
        /\ (RecsOf("Social Media Presence") # {}) <=> (MissingOf(seoScore) # {})
        /\ \A i \in RecsOf("Social Media Presence") :
              LET joined == recommendations[i].message.joined
              IN  /\ recommendations[i].status = "warning"
                  /\ recommendations[i].priority = "medium"
                  /\ {joined[k] : k \in 1..Len(joined)} = MissingOf(seoScore)
                  /\ Len(joined) = Cardinality(MissingOf(seoScore))
        /\ Cardinality(MissingOf(seoScore)) = 4 =>
              /\ seoScore.details.socialMediaPresence = 0
              /\ RecsOf("Social Media Presence") # {}

\* a score for which no platform exists: the message lists all four
C12_Witness ==
    /\ Scored
    /\ seoScore.details.socialMediaPresence = 0
    /\ \E i \in RecsOf("Social Media Presence") :
          recommendations[i].message.joined
              = <<"facebook", "instagram", "twitter", "linkedin">>

\* C13: a Search Engine Ranking recommendation (poor, high) is emitted exactly
\* when googleRanking is below 70, that is when the raw googlePosition is
\* above 30, and its message reports that raw position.
C13_RankingRecommendation ==
    Scored =>
        /\ (RecsOf("Search Engine Ranking") # {})
              <=> (seoScore.details.googleRanking < 70 * Scale)
        /\ (RecsOf("Search Engine Ranking") # {})
              <=> (seoScore.searchData.googleRank > 30)
        /\ \A i \in RecsOf("Search Engine Ranking") :
              /\ recommendations[i].status = "poor"
              /\ recommendations[i].priority = "high"
              /\ recommendations[i].message.googleRank = seoScore.searchData.googleRank

\* a score for position 31, the first position with a recommendation
C13_Witness ==
    /\ Scored
    /\ seoScore.searchData.googleRank = 31
    /\ RecsOf("Search Engine Ranking") # {}

\* C14: an Online Reviews recommendation (warning, high) is emitted exactly
\* when the google count is below 100 or the yelp count is below 50: none
\* for counts 100 and 50, one for counts 50 and 10.
C14_ReviewsRecommendation ==
    Scored =>
        /\ (RecsOf("Online Reviews") # {})
              <=> (seoScore.reviews.google.count < 100 \/ seoScore.reviews.yelp.count < 50)
        /\ \A i \in RecsOf("Online Reviews") :
              /\ recommendations[i].status = "warning"
              /\ recommendations[i].priority = "high"
        /\ (seoScore.reviews.google.count = 100 /\ seoScore.reviews.yelp.count = 50)
              => RecsOf("Online Reviews") = {}
        /\ (seoScore.reviews.google.count = 50 /\ seoScore.reviews.yelp.count = 10)
              => Cardinality(RecsOf("Online Reviews")) = 1

\* a score with 100 google reviews and 10 yelp reviews: only the yelp count
\* is low, and the recommendation is emitted
C14_Witness ==
    /\ Scored
    /\ seoScore.reviews.google.count = 100
    /\ seoScore.reviews.yelp.count = 10
    /\ Cardinality(RecsOf("Online Reviews")) = 1

\* C15: the stored recommendations are the derivation applied to the stored
\* score, and empty while no score is stored; only a successful calculation
\* changes the score or the recommendations, and it replaces both together.
C15_RecommendationsDerived ==
    /\ [](recommendations
            = IF Scored THEN generateRecommendations(seoScore) ELSE <<>>)
    /\ [][(seoScore' # seoScore \/ recommendations' # recommendations) =>
             /\ Len(pending') < Len(pending)
             /\ error' = NoError
             /\ seoScore' # NoScore
             /\ recommendations' = generateRecommendations(seoScore')]_vars

\* a new calculation is pending while the three recommendations of an
\* earlier result are still stored
C15_Witness ==
    /\ Scored
    /\ isCalculating
    /\ Len(recommendations) = 3

EditName == \E value \in FormNames : value # businessName /\ SetBusinessName(value)
EditAddress == \E value \in FormAddresses : value # businessAddress /\ SetBusinessAddress(value)

\* C16: the fields stay editable while a fetch is pending; the call captures
\* the name and address of the moment it is triggered, and the score stored
\* when the fetch completes is computed from those, not from the fields.
C16_ScoreFromTriggerInputs ==
    /\ [](pending # <<>> => (ENABLED EditName /\ ENABLED EditAddress))
    /\ [][/\ Len(pending') > Len(pending) =>
                pending'[Len(pending')]
                    = [name |-> businessName, address |-> businessAddress]
          /\ (Len(pending') < Len(pending) /\ error' = NoError) =>
                \E i \in 1..Len(pending) :
                    /\ seoScore'.details.nameLength
                          = NameLength(pending[i].name) * Scale
                    /\ seoScore'.details.keywordOptimization
                          = KeywordOptimization(pending[i].name) * Scale
                    /\ seoScore'.details.addressCompleteness
                          = AddressCompleteness(pending[i].address) * Scale]_vars

\* the stored score belongs to a name and an address that are both different
\* from the ones in the form
C16_Witness ==
    /\ Scored
    /\ ~isCalculating
    /\ scoredFrom.name # businessName
    /\ scoredFrom.address # businessAddress
    /\ seoScore.details.nameLength # NameLength(businessName) * Scale
    /\ seoScore.details.addressCompleteness # AddressCompleteness(businessAddress) * Scale

\* C17: a triggered calculation starts with isCalculating true and error
\* null; if its fetch settles, isCalculating becomes false again, with either
\* a score stored and error still null, or the failure message in error and
\* the score unchanged; error is never non-null while isCalculating is true.
C17_CalculationLifecycle ==
    /\ [](isCalculating => error = NoError)
    /\ [][/\ (Len(pending') > Len(pending) \/ (~isCalculating /\ isCalculating')) =>
                (isCalculating' /\ error' = NoError)
          /\ (isCalculating /\ ~isCalculating') =>
                \/ /\ error' = NoError
                   /\ seoScore' # NoScore
                   /\ \E i \in 1..Len(pending) : scoredFrom' = pending[i]
                   /\ recommendations' = generateRecommendations(seoScore')
                \/ /\ error' = "Failed to calculate SEO score. Please try again."
                   /\ seoScore' = seoScore
                   /\ recommendations' = recommendations]_vars
    /\ (isCalculating ~> ~isCalculating)

\* a first calculation has ended in failure: the message is set, no score
\* is stored and the button is enabled again
C17_Witness ==
    /\ ~isCalculating
    /\ pending = <<>>
    /\ error = FailMessage
    /\ ~Scored
    /\ ButtonEnabled

====
